---------------------------- MODULE Spec2Model ----------------------------
(***************************************************************************)
(* A model of FishEngine's Vector3 (Engine/Source/Runtime/Vector3.hpp).    *)
(*                                                                         *)
(* The fields of a Vector3 are C++ `float`s.  They are modelled as IEEE    *)
(* 754 binary32 values with round-to-nearest-even arithmetic, signed       *)
(* zeros, subnormals, infinities and one NaN, so that rounding, overflow   *)
(* and NaN propagation are those of the program.  Every arithmetic step    *)
(* of the source is one rounded operation of the model (no fused           *)
(* multiply-add, no extended intermediate precision).                      *)
(*                                                                         *)
(* A float is a record [sign, mant, exp]:                                  *)
(*   finite   value = (-1)^sign * mant * 2^exp, with either                *)
(*            2^23 <= mant < 2^24 and ExpMin <= exp <= ExpMax (normal) or  *)
(*            mant < 2^23 and exp = ExpMin (subnormal, zero);              *)
(*   infinity exp = ExpSpecial, mant = 0;                                  *)
(*   NaN      exp = ExpSpecial, mant = 1, sign = 0.                        *)
(***************************************************************************)
EXTENDS Integers, Sequences, FiniteSets

---------------------------------------------------------------------------
(* binary32 *)

Precision == 24
ExpMin == -149
ExpMax == 104
ExpSpecial == 105

P2 == [i \in 0..30 |-> 2^i]

Float(s, m, e) == [sign |-> s, mant |-> m, exp |-> e]

NaN == Float(0, 1, ExpSpecial)
Inf(s) == Float(s, 0, ExpSpecial)
Zero(s) == Float(s, 0, ExpMin)

isnan(f) == f.exp = ExpSpecial /\ f.mant # 0
IsInf(f) == f.exp = ExpSpecial /\ f.mant = 0
IsZero(f) == f.exp # ExpSpecial /\ f.mant = 0
IsFinite(f) == f.exp # ExpSpecial

\* Number of bits of n, 0 <= n < 2^31.
BitLen(n) ==
    IF n < P2[16]
    THEN IF n < P2[8]
         THEN IF n < P2[4]
              THEN IF n < 4 THEN (IF n < 2 THEN n ELSE 2) ELSE (IF n < 8 THEN 3 ELSE 4)
              ELSE IF n < P2[6] THEN (IF n < P2[5] THEN 5 ELSE 6)
                                ELSE (IF n < P2[7] THEN 7 ELSE 8)
         ELSE IF n < P2[12]
              THEN IF n < P2[10] THEN (IF n < P2[9] THEN 9 ELSE 10)
                                 ELSE (IF n < P2[11] THEN 11 ELSE 12)
              ELSE IF n < P2[14] THEN (IF n < P2[13] THEN 13 ELSE 14)
                                 ELSE (IF n < P2[15] THEN 15 ELSE 16)
    ELSE IF n < P2[24]
         THEN IF n < P2[20]
              THEN IF n < P2[18] THEN (IF n < P2[17] THEN 17 ELSE 18)
                                 ELSE (IF n < P2[19] THEN 19 ELSE 20)
              ELSE IF n < P2[22] THEN (IF n < P2[21] THEN 21 ELSE 22)
                                 ELSE (IF n < P2[23] THEN 23 ELSE 24)
         ELSE IF n < P2[28]
              THEN IF n < P2[26] THEN (IF n < P2[25] THEN 25 ELSE 26)
                                 ELSE (IF n < P2[27] THEN 27 ELSE 28)
              ELSE IF n < P2[30] THEN (IF n < P2[29] THEN 29 ELSE 30) ELSE 31

\* A finite float of sign s, significand m < 2^24 and exponent e >= ExpMin,
\* or infinity when e is above the largest exponent.
Pack(s, m, e) ==
    IF e > ExpMax THEN Inf(s) ELSE Float(s, m, IF m = 0 THEN ExpMin ELSE e)

\* A significand that rounding carried to 2^24 is 2^23 at the next exponent.
Carry(s, m, e) ==
    IF m = P2[Precision] THEN Pack(s, P2[Precision - 1], e + 1) ELSE Pack(s, m, e)

\* Round to nearest, ties to even: q is the kept part, r the dropped part,
\* half the weight of its first bit; sticky: more non-zero bits lie below r.
Nearest(q, r, half, sticky) ==
    IF r > half \/ (r = half /\ (sticky \/ q % 2 = 1)) THEN q + 1 ELSE q

\* The number of low bits of n * 2^e that a float cannot keep (negative:
\* the room left).
Shift(n, e) ==
    IF BitLen(n) - Precision > ExpMin - e THEN BitLen(n) - Precision ELSE ExpMin - e

RoundShift(s, n, e, sticky, sh) ==
    IF n = 0 THEN Zero(s)
    ELSE IF sh <= 0 THEN Pack(s, n * P2[-sh], e + sh)
    ELSE IF sh > 30 THEN Zero(s)
    ELSE Carry(s, Nearest(n \div P2[sh], n % P2[sh], P2[sh - 1], sticky), e + sh)

\* The float nearest to (n + r) * 2^e, ties to even, where 0 <= n < 2^30 and r is
\* 0, or some fraction strictly between 0 and 1 when sticky (n then has at
\* least 26 bits).  Overflows to infinity, underflows gradually.
RoundPack(s, n, e, sticky) == RoundShift(s, n, e, sticky, Shift(n, e))

FNeg(a) == IF isnan(a) THEN NaN ELSE Float(1 - a.sign, a.mant, a.exp)

\* hi + lo where the exponents differ by at most 5: t is the exact signed sum
\* in units of 2^lo.exp, positive when hi dominates.
AddNear(hi, lo, t, bothNeg) ==
    IF t = 0 THEN Zero(IF bothNeg THEN 1 ELSE 0)
    ELSE RoundPack(IF t > 0 THEN hi.sign ELSE lo.sign, IF t > 0 THEN t ELSE -t,
                   lo.exp, FALSE)

\* hi + lo where hi.exp - lo.exp = k + 5 > 5: in units of 2^(hi.exp - 5), lo is
\* q and, when st, a fraction more.
AddFar(hi, lo, q, st) ==
    RoundPack(hi.sign,
              IF hi.sign = lo.sign THEN hi.mant * 32 + q
              ELSE hi.mant * 32 - q - (IF st THEN 1 ELSE 0),
              hi.exp - 5, st)

\* hi + lo of two finite floats, hi.exp >= lo.exp.
AddOrdered(hi, lo, d) ==
    IF d <= 5
    THEN AddNear(hi, lo,
                 IF hi.sign = lo.sign THEN hi.mant * P2[d] + lo.mant
                 ELSE hi.mant * P2[d] - lo.mant,
                 hi.sign = 1 /\ lo.sign = 1)
    ELSE IF d - 5 >= Precision THEN AddFar(hi, lo, 0, lo.mant # 0)
    ELSE AddFar(hi, lo, lo.mant \div P2[d - 5], lo.mant % P2[d - 5] # 0)

FAdd(a, b) ==
    IF isnan(a) \/ isnan(b) THEN NaN
    ELSE IF IsInf(a) THEN (IF IsInf(b) /\ a.sign # b.sign THEN NaN ELSE a)
    ELSE IF IsInf(b) THEN b
    ELSE IF a.exp >= b.exp THEN AddOrdered(a, b, a.exp - b.exp)
    ELSE AddOrdered(b, a, b.exp - a.exp)

FSub(a, b) == FAdd(a, FNeg(b))

SignOf(a, b) == IF a.sign = b.sign THEN 0 ELSE 1

\* The float nearest to (H * 2^24 + L) * 2^e: the top 30 bits, or all of them
\* (k = 24).
MulNorm(s, e, H, L, k) ==
    RoundPack(s, H * P2[k] + L \div P2[24 - k], e + 24 - k, L % P2[24 - k] # 0)

MulHL(s, e, H, L) ==
    MulNorm(s, e, H, L, IF 30 - BitLen(H) > 24 THEN 24 ELSE 30 - BitLen(H))

MulLow(s, e, h0, l1) == MulHL(s, e, h0 + l1 \div P2[24], l1 % P2[24])

MulMid(s, e, hh, mid, ll) ==
    MulLow(s, e, hh + mid \div 4096, ll + (mid % 4096) * 4096)

\* a * b of two finite non-zero floats: the 48-bit product of the significands
\* is formed from their 12-bit halves as H * 2^24 + L.
MulFinite(a, b) ==
    MulMid(SignOf(a, b), a.exp + b.exp,
           (a.mant \div 4096) * (b.mant \div 4096),
           (a.mant \div 4096) * (b.mant % 4096) + (a.mant % 4096) * (b.mant \div 4096),
           (a.mant % 4096) * (b.mant % 4096))

FMul(a, b) ==
    IF isnan(a) \/ isnan(b) THEN NaN
    ELSE IF IsInf(a) \/ IsInf(b)
    THEN (IF IsZero(a) \/ IsZero(b) THEN NaN ELSE Inf(SignOf(a, b)))
    ELSE IF IsZero(a) \/ IsZero(b) THEN Zero(SignOf(a, b))
    ELSE MulFinite(a, b)

\* Long division: `steps` times six more quotient bits of r / d.
RECURSIVE DivSteps(_, _, _, _)
DivSteps(q, r, d, steps) ==
    IF steps = 0 THEN <<q, r>>
    ELSE DivSteps(q * 64 + (r * 64) \div d, (r * 64) % d, d, steps - 1)

\* Three last quotient bits, and the remainder as the sticky bit.
DivLast(s, qr, nb, e) ==
    RoundPack(s, qr[1] * 8 + (qr[2] * 8) \div nb, e, (qr[2] * 8) % nb # 0)

\* na / nb * 2^(e + 27) for 24-bit na and nb: 27 fraction bits of the quotient.
DivNorm(s, na, nb, e) == DivLast(s, DivSteps(na \div nb, na % nb, nb, 4), nb, e)

DivShifted(a, b, sa, sb) ==
    DivNorm(SignOf(a, b), a.mant * P2[sa], b.mant * P2[sb],
            (a.exp - sa) - (b.exp - sb) - 27)

\* a / b of two finite non-zero floats, the significands normalised to 24 bits.
DivFinite(a, b) ==
    DivShifted(a, b, Precision - BitLen(a.mant), Precision - BitLen(b.mant))

FDiv(a, b) ==
    IF isnan(a) \/ isnan(b) THEN NaN
    ELSE IF IsInf(a) THEN (IF IsInf(b) THEN NaN ELSE Inf(SignOf(a, b)))
    ELSE IF IsInf(b) THEN Zero(SignOf(a, b))
    ELSE IF IsZero(b) THEN (IF IsZero(a) THEN NaN ELSE Inf(SignOf(a, b)))
    ELSE IF IsZero(a) THEN Zero(SignOf(a, b))
    ELSE DivFinite(a, b)

\* Digit-by-digit square root of nn * 4^14: the 13 digit pairs of nn (nn < 2^26),
\* then 14 pairs of zeros.  Returns <<root, remainder>>.
RECURSIVE SqrtSteps(_, _, _, _)
SqrtSteps(i, rem, root, nn) ==
    IF i < 0 THEN <<root, rem>>
    ELSE SqrtSteps(i - 1,
                   IF rem * 4 + (IF i >= 14 THEN (nn \div P2[2 * (i - 14)]) % 4 ELSE 0)
                         >= root * 4 + 1
                   THEN rem * 4 + (IF i >= 14 THEN (nn \div P2[2 * (i - 14)]) % 4 ELSE 0)
                         - (root * 4 + 1)
                   ELSE rem * 4 + (IF i >= 14 THEN (nn \div P2[2 * (i - 14)]) % 4 ELSE 0),
                   IF rem * 4 + (IF i >= 14 THEN (nn \div P2[2 * (i - 14)]) % 4 ELSE 0)
                         >= root * 4 + 1
                   THEN root * 2 + 1
                   ELSE root * 2,
                   nn)

SqrtLast(rr, e) == RoundPack(0, rr[1], e, rr[2] # 0)

\* The square root of nm * 2^e0 for a 24-bit nm: the exponent is made even.
SqrtNorm(nm, e0) ==
    IF e0 % 2 = 1
    THEN SqrtLast(SqrtSteps(26, 0, 0, nm * 2), (e0 - 1) \div 2 - 14)
    ELSE SqrtLast(SqrtSteps(26, 0, 0, nm), e0 \div 2 - 14)

SqrtShifted(a, sa) == SqrtNorm(a.mant * P2[sa], a.exp - sa)

\* ::std::sqrtf
sqrtf(a) ==
    IF isnan(a) THEN NaN
    ELSE IF IsZero(a) THEN a
    ELSE IF a.sign = 1 THEN NaN
    ELSE IF IsInf(a) THEN a
    ELSE SqrtShifted(a, Precision - BitLen(a.mant))

\* |a| < |b| for two non-NaN floats.
MagLt(a, b) == a.exp < b.exp \/ (a.exp = b.exp /\ a.mant < b.mant)

FLt(a, b) ==
    /\ ~isnan(a)
    /\ ~isnan(b)
    /\ ~(IsZero(a) /\ IsZero(b))
    /\ IF a.sign # b.sign THEN a.sign = 1
       ELSE IF a.sign = 0 THEN MagLt(a, b) ELSE MagLt(b, a)

FEq(a, b) == ~isnan(a) /\ ~isnan(b) /\ ((IsZero(a) /\ IsZero(b)) \/ a = b)
FNe(a, b) == ~FEq(a, b)
FGt(a, b) == FLt(b, a)
FLe(a, b) == FLt(a, b) \/ FEq(a, b)
FGe(a, b) == FLe(b, a)

\* The float equal to the integer n, |n| < 2^24.
FromInt(n) == IF n < 0 THEN RoundPack(1, -n, 0, FALSE) ELSE RoundPack(0, n, 0, FALSE)

F0 == Zero(0)
F1 == FromInt(1)

---------------------------------------------------------------------------
(* libm and Mathf *)

PiOver4 == Float(0, 13176795, -24)
PiOver2 == Float(0, 13176795, -23)
ThreePiOver4 == Float(0, 9882596, -22)
Pi == Float(0, 13176795, -22)

\* ::std::acosf.  Exact at -1, 0 and 1 (0 gives the float nearest pi/2); NaN
\* for NaN and outside [-1, 1]; elsewhere only the quadrant of the result is
\* modelled, by its midpoint.
acosf(d) ==
    IF isnan(d) THEN NaN
    ELSE IF IsZero(d) THEN PiOver2
    ELSE IF FEq(d, F1) THEN F0
    ELSE IF FEq(d, FNeg(F1)) THEN Pi
    ELSE IF FGt(d, F1) \/ FLt(d, FNeg(F1)) THEN NaN
    ELSE IF d.sign = 0 THEN PiOver4 ELSE ThreePiOver4

\* Mathf::Rad2Deg, 57.29578f.
Rad2Deg == Float(0, 15019745, -18)

\* Mathf::Clamp01.
Clamp01(t) == IF FLt(t, F0) THEN F0 ELSE IF FGt(t, F1) THEN F1 ELSE t

\* std::max and std::min: (a < b) ? b : a and (b < a) ? b : a.
StdMax(a, b) == IF FLt(a, b) THEN b ELSE a
StdMin(a, b) == IF FLt(b, a) THEN b ELSE a

---------------------------------------------------------------------------
(* Vector3 *)

\* The union { struct { float x, y, z; }; float m[3]; }: one storage of three
\* floats; m[0], m[1], m[2] of the source are m[1], m[2], m[3] here.
Vec(fx, fy, fz) == <<fx, fy, fz>>
X(v) == v[1]
Y(v) == v[2]
Z(v) == v[3]

\* The outcome of a call: ok is FALSE when an assertion of the call failed,
\* and val is then meaningless.
Ok(v) == [ok |-> TRUE, val |-> v]
Failure == [ok |-> FALSE, val |-> <<>>]

kEpsilon == Float(0, 10995116, -40)
\* 9.99999944E-11f
kEqEpsilon == Float(0, 14411518, -57)

hasNaNs(v) == isnan(X(v)) \/ isnan(Y(v)) \/ isnan(Z(v))

\* Vector3(float x, float y, float z): the fields are set, then asserted NaN-free.
Vector3(fx, fy, fz) == IF hasNaNs(Vec(fx, fy, fz)) THEN Failure ELSE Ok(Vec(fx, fy, fz))

\* float* data(): the storage itself.
data(v) == v
\* operator[](index), index in 0..2.
Index(v, index) == v[index + 1]

\* The named constants.
zero == Vec(F0, F0, F0)
one == Vec(F1, F1, F1)
forward == Vec(F0, F0, F1)
back == Vec(F0, F0, FNeg(F1))
up == Vec(F0, F1, F0)
down == Vec(F0, FNeg(F1), F0)
left == Vec(FNeg(F1), F0, F0)
right == Vec(F1, F0, F0)

sqrMagnitude(v) == FAdd(FAdd(FMul(X(v), X(v)), FMul(Y(v), Y(v))), FMul(Z(v), Z(v)))
magnitude(v) == sqrtf(FAdd(FAdd(FMul(X(v), X(v)), FMul(Y(v), Y(v))), FMul(Z(v), Z(v))))
SqrMagnitude(a) == FAdd(FAdd(FMul(X(a), X(a)), FMul(Y(a), Y(a))), FMul(Z(a), Z(a)))
Magnitude(a) == sqrtf(FAdd(FAdd(FMul(X(a), X(a)), FMul(Y(a), Y(a))), FMul(Z(a), Z(a))))

\* operator-() const
OpNeg(v) == Vector3(FNeg(X(v)), FNeg(Y(v)), FNeg(Z(v)))

\* operator+, operator-, operator* (const Vector3&) const
OpAdd(a, v) ==
    IF hasNaNs(v) THEN Failure
    ELSE Vector3(FAdd(X(a), X(v)), FAdd(Y(a), Y(v)), FAdd(Z(a), Z(v)))
OpSub(a, v) ==
    IF hasNaNs(v) THEN Failure
    ELSE Vector3(FSub(X(a), X(v)), FSub(Y(a), Y(v)), FSub(Z(a), Z(v)))
OpMul(a, v) ==
    IF hasNaNs(v) THEN Failure
    ELSE Vector3(FMul(X(a), X(v)), FMul(Y(a), Y(v)), FMul(Z(a), Z(v)))

\* operator+, operator-, operator*, operator/ (const float) const
OpAddF(a, f) ==
    IF isnan(f) THEN Failure ELSE Vector3(FAdd(X(a), f), FAdd(Y(a), f), FAdd(Z(a), f))
OpSubF(a, f) ==
    IF isnan(f) THEN Failure ELSE Vector3(FSub(X(a), f), FSub(Y(a), f), FSub(Z(a), f))
OpMulF(a, f) ==
    IF isnan(f) THEN Failure ELSE Vector3(FMul(X(a), f), FMul(Y(a), f), FMul(Z(a), f))
OpDivF(a, f) ==
    IF ~(~isnan(f) /\ FNe(f, F0)) THEN Failure
    ELSE Vector3(FDiv(X(a), f), FDiv(Y(a), f), FDiv(Z(a), f))

\* friend operator*(const float f, const Vector3& v)
FMulVec(f, v) ==
    IF ~(~isnan(f) /\ ~hasNaNs(v)) THEN Failure
    ELSE Vector3(FMul(X(v), f), FMul(Y(v), f), FMul(Z(v), f))

\* NormalizeBy without the test of the length against kEpsilon.
NormalizeByUnguarded(value, num) == OpDivF(value, num)

\* static Normalize(const Vector3& value)
\* the body, after float num = value.magnitude()
NormalizeBy(value, num) ==
    IF FGt(num, kEpsilon) THEN OpDivF(value, num) ELSE Ok(zero)
Normalize(value) == NormalizeBy(value, magnitude(value))

\* normalized() const
normalized(v) == Normalize(v)

\* void Normalize(): the new storage of *this.
NormalizeInPlaceBy(v, len) ==
    IF FGt(len, kEpsilon)
    THEN Vec(FDiv(X(v), len), FDiv(Y(v), len), FDiv(Z(v), len))
    ELSE Vec(F0, F0, F0)
NormalizeInPlace(v) == NormalizeInPlaceBy(v, magnitude(v))

Dot(lhs, rhs) ==
    FAdd(FAdd(FMul(X(lhs), X(rhs)), FMul(Y(lhs), Y(rhs))), FMul(Z(lhs), Z(rhs)))

\* Cross with the operands of every product exchanged (the left-handed product).
CrossLeftHanded(lhs, rhs) ==
    Vector3(FSub(FMul(Z(lhs), Y(rhs)), FMul(Y(lhs), Z(rhs))),
            FSub(FMul(X(lhs), Z(rhs)), FMul(Z(lhs), X(rhs))),
            FSub(FMul(Y(lhs), X(rhs)), FMul(X(lhs), Y(rhs))))

Cross(lhs, rhs) ==
    Vector3(FSub(FMul(Y(lhs), Z(rhs)), FMul(Z(lhs), Y(rhs))),
            FSub(FMul(Z(lhs), X(rhs)), FMul(X(lhs), Z(rhs))),
            FSub(FMul(X(lhs), Y(rhs)), FMul(Y(lhs), X(rhs))))

\* the body, given the outcomes of Normalize(from) and Normalize(to)
AngleOf(nf, nt) ==
    IF ~nf.ok \/ ~nt.ok THEN Failure
    ELSE Ok(FMul(acosf(Dot(nf.val, nt.val)), Rad2Deg))
Angle(from, to) == AngleOf(Normalize(from), Normalize(to))

MagnitudeOf(d) == IF d.ok THEN Ok(Magnitude(d.val)) ELSE Failure
Distance(a, b) == MagnitudeOf(OpSub(a, b))

SqrMagnitudeOf(d) == IF d.ok THEN Ok(SqrMagnitude(d.val)) ELSE Failure
DistanceSquared(a, b) == SqrMagnitudeOf(OpSub(a, b))

\* r * f, r the outcome of the call that gives the left operand
TimesF(r, f) == IF r.ok THEN OpMulF(r.val, f) ELSE Failure

\* ClampMagnitude returning normalized() without the factor maxLength.
ClampMagnitudeUnscaled(vector, maxLength) ==
    IF FGt(sqrMagnitude(vector), FMul(maxLength, maxLength))
    THEN normalized(vector)
    ELSE Ok(vector)

ClampMagnitude(vector, maxLength) ==
    IF FGt(sqrMagnitude(vector), FMul(maxLength, maxLength))
    THEN TimesF(normalized(vector), maxLength)
    ELSE Ok(vector)

LerpUnClamped(a, b, t) ==
    Vector3(FAdd(X(a), FMul(FSub(X(b), X(a)), t)),
            FAdd(Y(a), FMul(FSub(Y(b), Y(a)), t)),
            FAdd(Z(a), FMul(FSub(Z(b), Z(a)), t)))

\* the body, after t = Mathf::Clamp01(t)
LerpClamped(a, b, t) ==
    Vector3(FAdd(X(a), FMul(FSub(X(b), X(a)), t)),
            FAdd(Y(a), FMul(FSub(Y(b), Y(a)), t)),
            FAdd(Z(a), FMul(FSub(Z(b), Z(a)), t)))
\* Lerp without the call of Mathf::Clamp01.
LerpNoClamp(a, b, t) == LerpClamped(a, b, t)
Lerp(a, b, t) == LerpClamped(a, b, Clamp01(t))

Max(lhs, rhs) ==
    Vector3(StdMax(X(lhs), X(rhs)), StdMax(Y(lhs), Y(rhs)), StdMax(Z(lhs), Z(rhs)))
Min(lhs, rhs) ==
    Vector3(StdMin(X(lhs), X(rhs)), StdMin(Y(lhs), Y(rhs)), StdMin(Z(lhs), Z(rhs)))

\* static Scale(const Vector3& a, const Vector3& b)
ScaleStatic(a, b) == Vector3(FMul(X(a), X(b)), FMul(Y(a), Y(b)), FMul(Z(a), Z(b)))

\* -2.0f * Dot(inNormal, inDirection) * inNormal + inDirection
PlusVec(r, v) == IF r.ok THEN OpAdd(r.val, v) ELSE Failure
Reflect(inDirection, inNormal) ==
    PlusVec(FMulVec(FMul(FromInt(-2), Dot(inNormal, inDirection)), inNormal),
            inDirection)

\* operator== comparing the distance, not the squared distance.
CloserThanEpsByMagnitude(d) ==
    IF d.ok THEN Ok(FLt(Magnitude(d.val), kEqEpsilon)) ELSE Failure

\* friend operator==, operator!=
\* the comparisons, given the outcome d of lhs - rhs
CloserThanEps(d) == IF d.ok THEN Ok(FLt(SqrMagnitude(d.val), kEqEpsilon)) ELSE Failure
NotCloserThanEps(d) == IF d.ok THEN Ok(FGe(SqrMagnitude(d.val), kEqEpsilon)) ELSE Failure
OpEq(lhs, rhs) == CloserThanEps(OpSub(lhs, rhs))
OpNe(lhs, rhs) == NotCloserThanEps(OpSub(lhs, rhs))

\* The outcome of an operation that changes *this: ok is FALSE when its
\* assertion failed, and val is what *this holds then.
Mut(ok, v) == [ok |-> ok, val |-> v]

\* The object under construction by Vector3(x, y, z), Vector3(x, y) and
\* Vector3(array): the fields are initialised before the body asserts.
Construct3(fx, fy, fz) == Mut(~hasNaNs(Vec(fx, fy, fz)), Vec(fx, fy, fz))
Construct2(fx, fy) == Mut(~hasNaNs(Vec(fx, fy, F0)), Vec(fx, fy, F0))
ConstructFromArray(array) == Mut(TRUE, Vec(array[1], array[2], array[3]))

\* void Set(newX, newY, newZ)
Set(v, newX, newY, newZ) == Mut(TRUE, Vec(newX, newY, newZ))

\* void Scale(const Vector3& scale)
Scale(v, scale) ==
    Mut(TRUE, Vec(FMul(X(v), X(scale)), FMul(Y(v), Y(scale)), FMul(Z(v), Z(scale))))

\* v[index] = f through float& operator[](index), v.data()[index] = f through
\* float* data(), and v.x = f, v.y = f, v.z = f: x, y, z are m[0], m[1], m[2].
IndexWriteReversed(v, index, f) == Mut(TRUE, [v EXCEPT ![3 - index] = f])
IndexWrite(v, index, f) == Mut(TRUE, [v EXCEPT ![index + 1] = f])
DataWrite(v, index, f) == Mut(TRUE, [data(v) EXCEPT ![index + 1] = f])
FieldWrite(v, field, f) ==
    Mut(TRUE, IF field = "x" THEN Vec(f, Y(v), Z(v))
              ELSE IF field = "y" THEN Vec(X(v), f, Z(v))
              ELSE Vec(X(v), Y(v), f))

\* operator=(const Vector3& v)
Assign(this, v) == IF hasNaNs(v) THEN Mut(FALSE, this) ELSE Mut(TRUE, Vec(X(v), Y(v), Z(v)))

\* operator+=, operator-= (const Vector3& v)
AddAssign(this, v) ==
    IF hasNaNs(v) THEN Mut(FALSE, this)
    ELSE Mut(TRUE, Vec(FAdd(X(this), X(v)), FAdd(Y(this), Y(v)), FAdd(Z(this), Z(v))))
SubAssign(this, v) ==
    IF hasNaNs(v) THEN Mut(FALSE, this)
    ELSE Mut(TRUE, Vec(FSub(X(this), X(v)), FSub(Y(this), Y(v)), FSub(Z(this), Z(v))))

\* operator+=, operator-=, operator*=, operator/= (const float f)
AddAssignF(this, f) ==
    IF isnan(f) THEN Mut(FALSE, this)
    ELSE Mut(TRUE, Vec(FAdd(X(this), f), FAdd(Y(this), f), FAdd(Z(this), f)))
SubAssignF(this, f) ==
    IF isnan(f) THEN Mut(FALSE, this)
    ELSE Mut(TRUE, Vec(FSub(X(this), f), FSub(Y(this), f), FSub(Z(this), f)))
MulAssignF(this, f) ==
    IF isnan(f) THEN Mut(FALSE, this)
    ELSE Mut(TRUE, Vec(FMul(X(this), f), FMul(Y(this), f), FMul(Z(this), f)))
DivAssignF(this, f) ==
    IF isnan(f) THEN Mut(FALSE, this)
    ELSE Mut(TRUE, Vec(FDiv(X(this), f), FDiv(Y(this), f), FDiv(Z(this), f)))


---------------------------------------------------------------------------
(* Inputs *)

NumScalars == 7
NumVecs == 10

\* 0, 1, 3, 1 + 2^-23, -1, 0.5, 1.7f, +infinity, 2, NaN
FloatList ==
    << F0, F1, FromInt(3), Float(0, 8388609, -23), FromInt(-1), Float(0, 8388608, -24),
       Float(0, 14260634, -23), Inf(0), FromInt(2), NaN >>

\* 1e-6f, 2^25, 2^70, 2^-11
F1em6 == Float(0, 8796093, -43)
F2p25 == Float(0, 8388608, 2)
F2p70 == Float(0, 8388608, 47)
F2m11 == Float(0, 8388608, -34)

VecList ==
    << Vec(F0, F0, F0),
       Vec(F1, F0, F0),
       Vec(F0, F1, F0),
       Vec(F1em6, F0, F0),
       Vec(F0, FromInt(2), FromInt(3)),
       Vec(F2p25, F0, F0),
       Vec(Inf(0), F0, F0),
       Vec(F2p70, F0, F0),
       Vec(Float(0, 14260634, -23), F2m11, F0),
       Vec(NaN, F0, F0),
       Vec(FromInt(3), FromInt(4), F0),
       Vec(FromInt(2), F0, F0) >>

Smaller(i, j) == IF i < j THEN i ELSE j
Scalars == {FloatList[i] : i \in 1..Smaller(NumScalars, Len(FloatList))}
Vectors == {VecList[i] : i \in 1..Smaller(NumVecs, Len(VecList))}

\* The floats and the vectors the operations that change an object are given.
NumWrites == 4
NumArgs == 3
MaxOps == 2

WriteList == << F0, F1, NaN, Inf(0), FromInt(2), FromInt(-1) >>
ArgList ==
    << Vec(F1, FromInt(2), FromInt(3)), Vec(Inf(0), F0, F0), Vec(NaN, F0, F0),
       Vec(F0, F0, F1), Vec(FromInt(-1), F0, F0) >>
Writes == {WriteList[i] : i \in 1..Smaller(NumWrites, Len(WriteList))}
Args == {ArgList[i] : i \in 1..Smaller(NumArgs, Len(ArgList))}

NamedConstants ==
    [zero |-> zero, one |-> one, forward |-> forward, back |-> back,
     up |-> up, down |-> down, left |-> left, right |-> right]

---------------------------------------------------------------------------
(* State *)

VARIABLES
    a,       \* a Vector3 object: its storage
    b,       \* a second Vector3 object
    s,       \* a float argument
    konst,   \* the named constants Vector3::zero .. Vector3::right
    op,      \* the last operation called
    ret,     \* the floats it returned: none, one (a float) or three (a Vector3)
    retb,    \* the bool it returned (FALSE when it returned none)
    failed,  \* an assertion has failed
    n,       \* the number of calls made
    pc       \* where each thread is: "idle" or "in call"

vars == <<a, b, s, konst, op, ret, retb, failed, n, pc>>

NoRet == <<>>

NumThreads == 2
Threads == 1..NumThreads
AllIdle == [t \in Threads |-> "idle"]

---------------------------------------------------------------------------
(* Pure functions applied to inputs drawn by Init *)

InitPure ==
    /\ a \in Vectors
    /\ b \in Vectors
    /\ s \in Scalars
    /\ konst = NamedConstants
    /\ op = "init"
    /\ ret = NoRet
    /\ retb = FALSE
    /\ failed = FALSE
    /\ n = 0
    /\ pc = AllIdle

\* A call of a function that changes no object: r is its outcome, a Vector3,
\* a float or a bool.
Return(name, r) ==
    /\ op = "init"
    /\ op' = name
    /\ ret' = IF r.ok THEN r.val ELSE NoRet
    /\ retb' = FALSE
    /\ failed' = ~r.ok
    /\ n' = n + 1
    /\ UNCHANGED <<a, b, s, konst, pc>>

ReturnFloat(name, r) ==
    /\ op = "init"
    /\ op' = name
    /\ ret' = IF r.ok THEN <<r.val>> ELSE NoRet
    /\ retb' = FALSE
    /\ failed' = ~r.ok
    /\ n' = n + 1
    /\ UNCHANGED <<a, b, s, konst, pc>>

ReturnBool(name, r) ==
    /\ op = "init"
    /\ op' = name
    /\ ret' = NoRet
    /\ retb' = (r.ok /\ r.val)
    /\ failed' = ~r.ok
    /\ n' = n + 1
    /\ UNCHANGED <<a, b, s, konst, pc>>

CallNormalize == Return("Normalize", Normalize(a))
Callnormalized == Return("normalized", normalized(a))
\* Vector3 v = a; v.Normalize(); the value v then holds.
CallNormalizeInPlace == Return("Normalize()", Ok(NormalizeInPlace(a)))
CallEq == ReturnBool("==", OpEq(a, b))
CallNe == ReturnBool("!=", OpNe(a, b))
CallClampMagnitude == Return("ClampMagnitude", ClampMagnitude(a, s))
CallLerp == Return("Lerp", Lerp(a, b, s))
CallLerpUnClamped == Return("LerpUnClamped", LerpUnClamped(a, b, s))
CallAngle == ReturnFloat("Angle", Angle(a, b))
CallCross == Return("Cross", Cross(a, b))
CallNeg == Return("-", OpNeg(a))

NextPure ==
    \/ CallNormalize
    \/ Callnormalized
    \/ CallNormalizeInPlace
    \/ CallEq
    \/ CallNe
    \/ CallClampMagnitude
    \/ CallLerp
    \/ CallLerpUnClamped
    \/ CallAngle
    \/ CallCross
    \/ CallNeg

SpecPure == InitPure /\ [][NextPure]_vars

---------------------------------------------------------------------------
(* One Vector3 object under a sequence of public operations *)

\* One thread.  In Spec, a is the object, b the Vector3 argument of the last call (or the
\* object constructed from a.data()), s its float argument and ret the floats
\* it read.
Init ==
    /\ a = Construct3(F0, F0, F0).val
    /\ b = zero
    /\ s = F0
    /\ konst = NamedConstants
    /\ op = "Vector3()"
    /\ ret = NoRet
    /\ retb = FALSE
    /\ failed = FALSE
    /\ n = 0
    /\ pc = AllIdle

\* A call on a with outcome r; a failed assertion ends the run.
Call(name, r, argv, argf) ==
    /\ ~failed
    /\ n < MaxOps
    /\ op' = name
    /\ a' = r.val
    /\ failed' = ~r.ok
    /\ b' = argv
    /\ s' = argf
    /\ ret' = NoRet
    /\ retb' = FALSE
    /\ n' = n + 1
    /\ UNCHANGED <<konst, pc>>

\* A call that reads a: r are the floats read.
Read(name, r, argv, argf, ok) ==
    /\ ~failed
    /\ n < MaxOps
    /\ op' = name
    /\ failed' = ~ok
    /\ b' = argv
    /\ s' = argf
    /\ ret' = r
    /\ retb' = FALSE
    /\ n' = n + 1
    /\ UNCHANGED <<a, konst, pc>>

IndexWriteName == << "v[0]=", "v[1]=", "v[2]=" >>
DataWriteName == << "data()[0]=", "data()[1]=", "data()[2]=" >>
FieldName == << "x", "y", "z" >>
FieldWriteName == << "x=", "y=", "z=" >>

DoConstructDefault == Call("Vector3()", Construct3(F0, F0, F0), b, s)
DoConstruct3 == \E v \in Args : Call("Vector3(x,y,z)", Construct3(X(v), Y(v), Z(v)), v, s)
DoConstruct2 == \E v \in Args : Call("Vector3(x,y)", Construct2(X(v), Y(v)), v, s)
DoConstructFromArray == \E v \in Args : Call("Vector3(array)", ConstructFromArray(v), v, s)
DoSet == \E v \in Args : Call("Set", Set(a, X(v), Y(v), Z(v)), v, s)
DoScale == \E v \in Args : Call("Scale", Scale(a, v), v, s)
DoIndexWrite ==
    \E i \in 0..2, f \in Writes : Call(IndexWriteName[i + 1], IndexWrite(a, i, f), b, f)
DoDataWrite ==
    \E i \in 0..2, f \in Writes : Call(DataWriteName[i + 1], DataWrite(a, i, f), b, f)
DoFieldWrite ==
    \E i \in 0..2, f \in Writes :
        Call(FieldWriteName[i + 1], FieldWrite(a, FieldName[i + 1], f), b, f)
DoAssign == \E v \in Args : Call("=", Assign(a, v), v, s)
DoAddAssign == \E v \in Args : Call("+=", AddAssign(a, v), v, s)
DoSubAssign == \E v \in Args : Call("-=", SubAssign(a, v), v, s)
DoAddAssignF == \E f \in Writes : Call("+=f", AddAssignF(a, f), b, f)
DoSubAssignF == \E f \in Writes : Call("-=f", SubAssignF(a, f), b, f)
DoMulAssignF == \E f \in Writes : Call("*=f", MulAssignF(a, f), b, f)
DoDivAssignF == \E f \in Writes : Call("/=f", DivAssignF(a, f), b, f)
DoNormalize == Call("Normalize()", Mut(TRUE, NormalizeInPlace(a)), b, s)
\* a / f: a is not changed, the quotient is read.
DoDivF ==
    \E f \in Writes :
        Read("/f", IF OpDivF(a, f).ok THEN OpDivF(a, f).val ELSE NoRet, b, f, OpDivF(a, f).ok)
DoIndexRead == Read("v[i]", <<Index(a, 0), Index(a, 1), Index(a, 2)>>, b, s, TRUE)
DoDataRead == Read("data()[i]", <<data(a)[1], data(a)[2], data(a)[3]>>, b, s, TRUE)
\* Vector3 b(a.data())
DoRoundTrip == Read("Vector3(data())", NoRet, ConstructFromArray(data(a)).val, s, TRUE)

Next ==
    \/ DoConstructDefault
    \/ DoConstruct3
    \/ DoConstruct2
    \/ DoConstructFromArray
    \/ DoSet
    \/ DoScale
    \/ DoIndexWrite
    \/ DoDataWrite
    \/ DoFieldWrite
    \/ DoAssign
    \/ DoAddAssign
    \/ DoSubAssign
    \/ DoAddAssignF
    \/ DoSubAssignF
    \/ DoMulAssignF
    \/ DoDivAssignF
    \/ DoNormalize
    \/ DoDivF
    \/ DoIndexRead
    \/ DoDataRead
    \/ DoRoundTrip

Spec == Init /\ [][Next]_vars

---------------------------------------------------------------------------
(* Several threads calling operations on the shared objects a and b *)

\* The static and the const operations, by what they return.
VecOps ==
    { "Normalize", "Cross", "ClampMagnitude", "Lerp", "LerpUnClamped", "Min", "Max",
      "Scale(a,b)", "Reflect", "normalized", "+", "-", "*", "+f", "-f", "*f", "/f", "-v" }
FloatOps ==
    { "Dot", "Angle", "Distance", "DistanceSquared", "Magnitude", "SqrMagnitude",
      "magnitude", "sqrMagnitude" }
BoolOps == { "==", "!=" }
PureOps == VecOps \cup FloatOps \cup BoolOps
\* The const member functions: called on an object.
ConstOps == { "normalized", "magnitude", "sqrMagnitude", "+", "-", "*", "+f", "-f", "*f", "/f", "-v" }

\* The operations that change the object they are called on.
MutOps ==
    { "Set", "Scale", "Normalize()", "=", "+=", "-=", "+=f", "-=f", "*=f", "/=f",
      "v[0]=", "v[1]=", "v[2]=", "data()[0]=", "data()[1]=", "data()[2]=" }

VecCall(f, u, v, t) ==
    CASE f = "Normalize" -> Normalize(u)
      [] f = "Cross" -> Cross(u, v)
      [] f = "ClampMagnitude" -> ClampMagnitude(u, t)
      [] f = "Lerp" -> Lerp(u, v, t)
      [] f = "LerpUnClamped" -> LerpUnClamped(u, v, t)
      [] f = "Min" -> Min(u, v)
      [] f = "Max" -> Max(u, v)
      [] f = "Scale(a,b)" -> ScaleStatic(u, v)
      [] f = "Reflect" -> Reflect(u, v)
      [] f = "normalized" -> normalized(u)
      [] f = "+" -> OpAdd(u, v)
      [] f = "-" -> OpSub(u, v)
      [] f = "*" -> OpMul(u, v)
      [] f = "+f" -> OpAddF(u, t)
      [] f = "-f" -> OpSubF(u, t)
      [] f = "*f" -> OpMulF(u, t)
      [] f = "/f" -> OpDivF(u, t)
      [] f = "-v" -> OpNeg(u)

FloatCall(f, u, v) ==
    CASE f = "Dot" -> Ok(Dot(u, v))
      [] f = "Angle" -> Angle(u, v)
      [] f = "Distance" -> Distance(u, v)
      [] f = "DistanceSquared" -> DistanceSquared(u, v)
      [] f = "Magnitude" -> Ok(Magnitude(u))
      [] f = "SqrMagnitude" -> Ok(SqrMagnitude(u))
      [] f = "magnitude" -> Ok(magnitude(u))
      [] f = "sqrMagnitude" -> Ok(sqrMagnitude(u))

BoolCall(f, u, v) == IF f = "==" THEN OpEq(u, v) ELSE OpNe(u, v)

MutCall(m, this, v, f) ==
    CASE m = "Set" -> Set(this, X(v), Y(v), Z(v))
      [] m = "Scale" -> Scale(this, v)
      [] m = "Normalize()" -> Mut(TRUE, NormalizeInPlace(this))
      [] m = "=" -> Assign(this, v)
      [] m = "+=" -> AddAssign(this, v)
      [] m = "-=" -> SubAssign(this, v)
      [] m = "+=f" -> AddAssignF(this, f)
      [] m = "-=f" -> SubAssignF(this, f)
      [] m = "*=f" -> MulAssignF(this, f)
      [] m = "/=f" -> DivAssignF(this, f)
      [] m = "v[0]=" -> IndexWrite(this, 0, f)
      [] m = "v[1]=" -> IndexWrite(this, 1, f)
      [] m = "v[2]=" -> IndexWrite(this, 2, f)
      [] m = "data()[0]=" -> DataWrite(this, 0, f)
      [] m = "data()[1]=" -> DataWrite(this, 1, f)
      [] m = "data()[2]=" -> DataWrite(this, 2, f)

\* A static or const operation that writes the object it is given.
ConstArgNormalized(v) == NormalizeInPlace(v)

\* What an object holds after a call that was given it as a const Vector3&
\* or as the *this of a const member function: no such operation assigns a
\* field of it.
ConstArg(v) == v

NoCall == [name |-> "", this |-> ""]

\* In SpecConc, op holds, for each thread, the operation it is calling (and
\* the object it calls it on); ret and retb hold what the last call that
\* returned gave back; n counts the calls.
InitConc ==
    /\ a = Vec(F1, FromInt(2), FromInt(3))
    /\ b = Vec(F0, F1, F0)
    /\ s = Float(0, 8388608, -24)
    /\ konst = NamedConstants
    /\ op = [t \in Threads |-> NoCall]
    /\ ret = NoRet
    /\ retb = FALSE
    /\ failed = FALSE
    /\ n = 0
    /\ pc = AllIdle

\* A mutating call is running.
Mutating == \E u \in Threads : pc[u] = "in call" /\ op[u].name \in MutOps

\* Thread t calls the static or const operation f on a, b and s.
Begin(t) ==
    /\ ~failed
    /\ n < MaxOps
    /\ pc[t] = "idle"
    /\ ~Mutating
    /\ \E f \in PureOps :
          op' = [op EXCEPT ![t] = [name |-> f, this |-> IF f \in ConstOps THEN "a" ELSE ""]]
    /\ pc' = [pc EXCEPT ![t] = "in call"]
    /\ n' = n + 1
    /\ UNCHANGED <<a, b, s, konst, ret, retb, failed>>

\* The call of thread t returns r.
EndWith(t, r, floats, bool) ==
    /\ ~failed
    /\ pc[t] = "in call"
    /\ pc' = [pc EXCEPT ![t] = "idle"]
    /\ op' = [op EXCEPT ![t] = NoCall]
    /\ ret' = IF r.ok THEN floats ELSE NoRet
    /\ retb' = (r.ok /\ bool)
    /\ failed' = ~r.ok
    /\ a' = ConstArg(a)
    /\ b' = ConstArg(b)
    /\ UNCHANGED <<s, konst, n>>

EndVec(t, r) == EndWith(t, r, r.val, FALSE)
EndFloat(t, r) == EndWith(t, r, <<r.val>>, FALSE)
EndBool(t, r) == EndWith(t, r, NoRet, r.val)

End(t) ==
    \/ op[t].name \in VecOps /\ EndVec(t, VecCall(op[t].name, a, b, s))
    \/ op[t].name \in FloatOps /\ EndFloat(t, FloatCall(op[t].name, a, b))
    \/ op[t].name \in BoolOps /\ EndBool(t, BoolCall(op[t].name, a, b))

\* Thread t calls the operation m on the object `this`; the caller has
\* exclusive access: no other call is running, and none starts before this
\* one returns.
BeginMutate(t) ==
    /\ ~failed
    /\ n < MaxOps
    /\ pc[t] = "idle"
    /\ \A u \in Threads : pc[u] # "in call"
    /\ \E m \in MutOps, this \in {"a", "b"} :
          op' = [op EXCEPT ![t] = [name |-> m, this |-> this]]
    /\ pc' = [pc EXCEPT ![t] = "in call"]
    /\ n' = n + 1
    /\ UNCHANGED <<a, b, s, konst, ret, retb, failed>>

\* The mutating call of thread t on `this` ends with outcome r.
MutateWith(t, this, r) ==
    /\ ~failed
    /\ pc[t] = "in call"
    /\ op[t].name \in MutOps
    /\ op[t].this = this
    /\ pc' = [pc EXCEPT ![t] = "idle"]
    /\ op' = [op EXCEPT ![t] = NoCall]
    /\ a' = IF this = "a" THEN r.val ELSE ConstArg(a)
    /\ b' = IF this = "b" THEN r.val ELSE ConstArg(b)
    /\ failed' = ~r.ok
    /\ ret' = NoRet
    /\ retb' = FALSE
    /\ UNCHANGED <<s, konst, n>>

EndMutate(t) ==
    \/ MutateWith(t, "a", MutCall(op[t].name, a, b, s))
    \/ MutateWith(t, "b", MutCall(op[t].name, b, a, s))

NextConc == \E t \in Threads : Begin(t) \/ End(t) \/ BeginMutate(t) \/ EndMutate(t)

SpecConc == InitConc /\ [][NextConc]_vars

---------------------------------------------------------------------------
(* Properties of one object, under Spec *)

\* C1: after any sequence of public operations, no field of the object is NaN
\* unless an assertion has failed.
NoNaNUnlessAssertionFailed == ~failed => ~hasNaNs(a)

\* C2: v / 0.0f and v /= 0.0f fail their assertion, and v /= 0.0f leaves the
\* fields of v as they were.
DivisionByZeroRejected ==
    [][(op' \in {"/f", "/=f"} /\ IsZero(s')) => (failed' /\ a' = a)]_vars

\* The field x, y or z of v, by its position 0, 1 or 2 in the struct.
NamedField(v, i) == IF i = 0 THEN X(v) ELSE IF i = 1 THEN Y(v) ELSE Z(v)

\* C4: a float written through operator[] or data() at index i is read in the
\* i-th named field, one written to a named field or by Set is read through
\* operator[] and data() at its index, reading v[0..2] and data()[0..2] gives
\* x, y, z in that order, and Vector3(v.data()) has the x, y and z of v.
NamedAndIndexedAlias ==
    /\ \A i \in 0..2 :
          /\ op \in {IndexWriteName[i + 1], DataWriteName[i + 1]} => NamedField(a, i) = s
          /\ op = FieldWriteName[i + 1] => (Index(a, i) = s /\ data(a)[i + 1] = s)
    /\ op = "Set" =>
          /\ <<Index(a, 0), Index(a, 1), Index(a, 2)>> = <<X(b), Y(b), Z(b)>>
          /\ <<data(a)[1], data(a)[2], data(a)[3]>> = <<X(b), Y(b), Z(b)>>
    /\ op \in {"v[i]", "data()[i]"} => ret = <<X(a), Y(a), Z(a)>>
    /\ op = "Vector3(data())" => (X(b) = X(a) /\ Y(b) = Y(a) /\ Z(b) = Z(a))

AliasWitness ==
    /\ n = 2
    /\ op = "v[1]="
    /\ s = F1
    /\ a = Vec(Inf(0), F1, F0)

---------------------------------------------------------------------------
(* Properties of the threads, under SpecConc *)

\* C5: no step changes a named constant; a step of a static or const
\* operation (its call and its return, whatever other calls are running)
\* changes neither a nor b; a step that changes a or b is the return of Set,
\* Scale(scale), Normalize(), operator=, a compound assignment or a write
\* through operator[] or data(), and it changes only the object it was called on.
SharedStateNotMutated ==
    [][/\ konst' = konst
       /\ \A t \in Threads :
             /\ (pc[t] = "idle" /\ pc'[t] = "in call") => (a' = a /\ b' = b)
             /\ (pc[t] = "in call" /\ pc'[t] = "idle" /\ op[t].name \in PureOps) =>
                   (a' = a /\ b' = b)
             /\ (pc[t] = "in call" /\ pc'[t] = "idle" /\ op[t].this = "a") => b' = b
             /\ (pc[t] = "in call" /\ pc'[t] = "idle" /\ op[t].this = "b") => a' = a
       /\ (a' # a \/ b' # b) =>
             \E t \in Threads :
                 pc[t] = "in call" /\ pc'[t] = "idle" /\ op[t].name \in MutOps
      ]_vars

\* Normalize(a) has returned a vector other than a while another thread is
\* inside Cross(a, b); a and the named constants are as they were.
ConcurrentCallsWitness ==
    \E t, u \in Threads :
        /\ pc[t] = "idle" /\ n = 2
        /\ a = Vec(F1, FromInt(2), FromInt(3))
        /\ ret = Normalize(a).val
        /\ ret # a
        /\ pc[u] = "in call" /\ op[u].name = "Cross"
        /\ konst = NamedConstants

---------------------------------------------------------------------------
(* Properties of the pure functions, under SpecPure *)

\* u and v hold equal floats, component by component (0 equals -0).
SameValues(u, v) == FEq(X(u), X(v)) /\ FEq(Y(u), Y(v)) /\ FEq(Z(u), Z(v))

NoInfinity(v) == ~IsInf(X(v)) /\ ~IsInf(Y(v)) /\ ~IsInf(Z(v))
SomeInfinity(v) == ~NoInfinity(v)

\* 1 + 2^-20
AlmostOneHigh == Float(0, 8388616, -23)
\* 2^-60 and 2^60
F2m60 == Float(0, 8388608, -83)
F2p60 == Float(0, 8388608, 37)
F90 == FromInt(90)

\* The squared distance of a and b, one rounded operation after the other.
SqrDistance(u, v) ==
    FAdd(FAdd(FMul(FSub(X(u), X(v)), FSub(X(u), X(v))),
              FMul(FSub(Y(u), Y(v)), FSub(Y(u), Y(v)))),
         FMul(FSub(Z(u), Z(v)), FSub(Z(u), Z(v))))

\* C6: whenever a == b or a != b returns, a == b is exactly
\* SqrMagnitude(a - b) < 9.99999944e-11 and a != b is exactly its negation;
\* (0,0,0) == (0,0,0), (1e-6,0,0) == (0,0,0) and (1,0,0) != (0,0,0) return true.
EqualityIsSquaredDistanceTest ==
    /\ (op = "==" /\ ~failed) => retb = FLt(SqrDistance(a, b), kEqEpsilon)
    /\ (op = "!=" /\ ~failed) => retb = ~FLt(SqrDistance(a, b), kEqEpsilon)
    /\ (op = "==" /\ a = zero /\ b = zero) => (~failed /\ retb)
    /\ (op = "==" /\ a = Vec(F1em6, F0, F0) /\ b = zero) => (~failed /\ retb)
    /\ (op = "!=" /\ a = right /\ b = zero) => (~failed /\ retb)
    /\ (op = "==" /\ a = right /\ b = zero) => (~failed /\ ~retb)

EqualityWitness ==
    op = "==" /\ a = Vec(F1em6, F0, F0) /\ b = zero /\ ~failed /\ retb

\* The cross product of u and v by the formula of the claim.
CrossFormula(u, v) ==
    Vec(FSub(FMul(Y(u), Z(v)), FMul(Z(u), Y(v))),
        FSub(FMul(Z(u), X(v)), FMul(X(u), Z(v))),
        FSub(FMul(X(u), Y(v)), FMul(Y(u), X(v))))

\* -Cross(v, u), when both calls return
NegCross(r) == IF r.ok THEN OpNeg(r.val) ELSE Failure

\* C10: whenever Cross(a, b) returns, it is (a.y*b.z - a.z*b.y,
\* a.z*b.x - a.x*b.z, a.x*b.y - a.y*b.x), it equals -Cross(b, a) component by
\* component, it is the zero vector when a = b, and
\* Cross((1,0,0), (0,1,0)) = (0,0,1).
CrossIsAntiCommutative ==
    /\ (op = "Cross" /\ ~failed) =>
          /\ ret = CrossFormula(a, b)
          /\ NegCross(Cross(b, a)).ok
          /\ SameValues(ret, NegCross(Cross(b, a)).val)
          /\ (a = b => SameValues(ret, zero))
    /\ (op = "Cross" /\ a = right /\ b = up) => (~failed /\ ret = forward)

CrossWitness ==
    /\ op = "Cross" /\ ~failed
    /\ a = Vec(F0, FromInt(2), FromInt(3))
    /\ b = Vec(Float(0, 14260634, -23), F2m11, F0)
    /\ ~IsZero(X(ret)) /\ ~IsZero(Y(ret)) /\ ~IsZero(Z(ret))

Finite(v) == IsFinite(X(v)) /\ IsFinite(Y(v)) /\ IsFinite(Z(v))

\* C3: both forms of Normalize apply one policy: for every vector v, static
\* Normalize(v) returns a vector, and v.Normalize() leaves that same vector in v.
NormalizeOnePolicy ==
    op = "Normalize()" => (Normalize(a).ok /\ ret = Normalize(a).val)

\* C7 as stated: for L >= 0, ClampMagnitude(v, L) has magnitude at most L and
\* is v itself whenever magnitude(v) <= L.
ClampMagnitudeAtMostL ==
    (op = "ClampMagnitude" /\ ~failed /\ FGe(s, F0)) =>
        /\ FLe(magnitude(ret), s)
        /\ FLe(magnitude(a), s) => ret = a

\* C7 amended: for L >= 0, whenever ClampMagnitude(v, L) returns, it is v
\* itself when the float comparison sqrMagnitude(v) > L*L is false, and
\* normalized(v) * L otherwise, of magnitude at most L * (1 + 2^-20) when L is 0
\* or 2^-60 <= L <= 2^60.
ClampMagnitudeUpToRounding ==
    (op = "ClampMagnitude" /\ ~failed /\ FGe(s, F0)) =>
        /\ ~FGt(sqrMagnitude(a), FMul(s, s)) => ret = a
        /\ FGt(sqrMagnitude(a), FMul(s, s)) =>
              /\ normalized(a).ok
              /\ ret = Vec(FMul(X(normalized(a).val), s), FMul(Y(normalized(a).val), s),
                           FMul(Z(normalized(a).val), s))
              /\ (IsZero(s) \/ (FLe(F2m60, s) /\ FLe(s, F2p60))) =>
                     FLe(magnitude(ret), FMul(s, AlmostOneHigh))

ClampMagnitudeWitness ==
    /\ op = "ClampMagnitude" /\ ~failed
    /\ a = Vec(F0, FromInt(2), FromInt(3))
    /\ s = FromInt(3)
    /\ FGt(magnitude(ret), s)
    /\ FLe(magnitude(ret), FMul(s, AlmostOneHigh))

\* a + (b - a)*t, component by component, one rounded operation after the other.
Blend(u, v, t) ==
    Vec(FAdd(X(u), FMul(FSub(X(v), X(u)), t)),
        FAdd(Y(u), FMul(FSub(Y(v), Y(u)), t)),
        FAdd(Z(u), FMul(FSub(Z(v), Z(u)), t)))

Degenerate(v) == FLe(magnitude(v), kEpsilon)

\* C9 as stated: when from or to has magnitude <= 1e-5, Angle(from, to) fails
\* no assertion and is 90; Angle((1,0,0), (0,1,0)) is 90.
AngleOfDegenerateIs90 ==
    /\ (op = "Angle" /\ (Degenerate(a) \/ Degenerate(b))) => (~failed /\ ret = <<F90>>)
    /\ (op = "Angle" /\ a = right /\ b = up) => (~failed /\ ret = <<F90>>)

\* C9 amended: when from or to has magnitude <= 1e-5 and neither has an
\* infinite component, Angle(from, to) fails no assertion and is 90;
\* Angle((1,0,0), (0,1,0)) is 90.
AngleOfDegenerateFiniteIs90 ==
    /\ (op = "Angle" /\ (Degenerate(a) \/ Degenerate(b)) /\ NoInfinity(a) /\ NoInfinity(b))
          => (~failed /\ ret = <<F90>>)
    /\ (op = "Angle" /\ a = right /\ b = up) => (~failed /\ ret = <<F90>>)

AngleWitness ==
    /\ op = "Angle" /\ ~failed
    /\ a = zero
    /\ b = Vec(F0, FromInt(2), FromInt(3))
    /\ ret = <<F90>>

=============================================================================
